---- MODULE Spec2Model ----
(***************************************************************************)
(* OracleDatabase.node.ts: the execute() method of the Oracle node and its *)
(* helpers (mapDatatype, coerceVal, ensureOutMaxSize, normalizeOutBinds).  *)
(*                                                                         *)
(* Text (SQL, names, values) is a sequence of one-character strings.  The  *)
(* 36 characters of one crypto.randomUUID() are one symbol "u<n>", fresh   *)
(* for every call; names are written with letters that are no hexadecimal  *)
(* digits, so no name can continue into the text of a UUID.                *)
(***************************************************************************)
EXTENDS Integers, Sequences, FiniteSets, TLC

VARIABLES
    queryTemplate,      \* getNodeParameter("query", 0)
    params,             \* parameterIDataObjectList
    pc,                 \* position of execute()
    idx,                \* index of the next item of the reduce
    query,              \* let query
    result,             \* the accumulator of the reduce (bindParameters)
    newParamNames,      \* per item, the newParamName values of its forEach
    generatedSqlString, \* per item, the final generatedSqlString
    uuidCount,          \* number of crypto.randomUUID() calls so far
    executeCalls,       \* arguments of every connection.execute call
    executeOutcome,     \* how the promise of connection.execute settled
    resultSets,         \* the cursor handles the executor created
    returnItems,        \* let returnItems
    thrown,             \* the exception execute() is completing with
    closeCalls,         \* number of connection.close() calls
    consoleErrors,      \* number of console.error calls
    outBinds,           \* normalizeOutBinds: its argument
    npc,                \* normalizeOutBinds: position
    rs,                 \* normalizeOutBinds: state of every cursor handle
    normResult          \* normalizeOutBinds: settled value of its promise

execVars == <<queryTemplate, params, pc, idx, query, result, newParamNames,
              generatedSqlString, uuidCount, executeCalls, executeOutcome,
              resultSets, returnItems, thrown, closeCalls, consoleErrors>>
normVars == <<outBinds, npc, rs, normResult>>
vars == <<queryTemplate, params, pc, idx, query, result, newParamNames,
          generatedSqlString, uuidCount, executeCalls, executeOutcome,
          resultSets, returnItems, thrown, closeCalls, consoleErrors,
          outBinds, npc, rs, normResult>>

(***************************************************************************)
(* Bounds and program constants                                            *)
(***************************************************************************)
MaxParams == 2

MaxTop == 2

MaxLen == 3

DefaultMaxSize == 2000

(***************************************************************************)
(* Text                                                                    *)
(***************************************************************************)
Digits == {"0", "1", "2", "3", "4", "5", "6", "7", "8", "9"}

WhiteSpace == {" "}

DigitValue(c) ==
    CASE c = "0" -> 0 [] c = "1" -> 1 [] c = "2" -> 2 [] c = "3" -> 3
      [] c = "4" -> 4 [] c = "5" -> 5 [] c = "6" -> 6 [] c = "7" -> 7
      [] c = "8" -> 8 [] OTHER -> 9

RECURSIVE trimStart(_)
trimStart(s) ==
    IF s # <<>> /\ Head(s) \in WhiteSpace THEN trimStart(Tail(s)) ELSE s

RECURSIVE trimEnd(_)
trimEnd(s) ==
    IF s # <<>> /\ s[Len(s)] \in WhiteSpace
    THEN trimEnd(SubSeq(s, 1, Len(s) - 1))
    ELSE s

trim(s) == trimEnd(trimStart(s))

\* s.split(sep) for a one-character separator: always at least one piece
RECURSIVE split(_, _)
split(s, sep) ==
    IF \E i \in 1..Len(s) : s[i] = sep
    THEN LET i == CHOOSE k \in 1..Len(s) :
                     s[k] = sep /\ \A j \in 1..(k - 1) : s[j] # sep
         IN  <<SubSeq(s, 1, i - 1)>> \o split(SubSeq(s, i + 1, Len(s)), sep)
    ELSE <<s>>

OccursAt(s, pat, i) ==
    /\ i >= 1
    /\ i + Len(pat) - 1 <= Len(s)
    /\ SubSeq(s, i, i + Len(pat) - 1) = pat

RECURSIVE replaceFrom(_, _, _, _)
replaceFrom(s, pat, rep, i) ==
    IF i > Len(s) THEN <<>>
    ELSE IF OccursAt(s, pat, i)
         THEN rep \o replaceFrom(s, pat, rep, i + Len(pat))
         ELSE <<s[i]>> \o replaceFrom(s, pat, rep, i + 1)

\* String.prototype.replace: the first occurrence only
replaceFirst(s, pat, rep) ==
    IF \E k \in 1..Len(s) : OccursAt(s, pat, k)
    THEN LET k == CHOOSE i \in 1..Len(s) :
                     OccursAt(s, pat, i)
                     /\ \A j \in 1..(i - 1) : ~OccursAt(s, pat, j)
         IN  SubSeq(s, 1, k - 1) \o rep \o SubSeq(s, k + Len(pat), Len(s))
    ELSE s

\* String.prototype.replaceAll with a non-empty string pattern: every
\* occurrence, left to right, without overlap
replaceAll(s, pat, rep) == replaceFrom(s, pat, rep, 1)

RECURSIVE decimal(_)
decimal(s) ==
    IF s = <<>> THEN 0
    ELSE 10 * decimal(SubSeq(s, 1, Len(s) - 1)) + DigitValue(s[Len(s)])

AllDigits(s) == \A i \in 1..Len(s) : s[i] \in Digits

(***************************************************************************)
(* Helpers of execute()                                                    *)
(***************************************************************************)
mapDatatype(dt) ==
    CASE dt = "number" -> "NUMBER"
      [] dt = "date"   -> "DATE"
      [] dt = "cursor" -> "CURSOR"
      [] OTHER         -> "STRING"

NoVal == [kind |-> "absent", num |-> 0, text |-> <<>>]

\* Number(raw): white space is stripped, the empty text is 0, decimal digits
\* are their value, anything else is NaN
NumberOf(raw) ==
    LET t == trim(raw)
    IN  IF AllDigits(t)
        THEN [kind |-> "number", num |-> decimal(t), text |-> <<>>]
        ELSE [kind |-> "NaN", num |-> 0, text |-> <<>>]

\* new Date(raw): a text of digits is a date, the empty text and any text
\* with another character are Invalid Date
DateOf(raw) ==
    LET t == trim(raw)
    IN  IF t # <<>> /\ AllDigits(t)
        THEN [kind |-> "date", num |-> decimal(t), text |-> <<>>]
        ELSE [kind |-> "InvalidDate", num |-> 0, text |-> <<>>]

coerceVal(raw, dt) ==
    IF dt = "number" THEN NumberOf(raw)
    ELSE IF dt = "date" THEN DateOf(raw)
    ELSE [kind |-> "string", num |-> 0, text |-> raw]

\* maxSize 0 stands for every falsy Number(maxSize): 0 and NaN (unset)
ensureOutMaxSize(dt, maxSize) ==
    IF dt = "string" /\ maxSize = 0 THEN DefaultMaxSize ELSE maxSize

(***************************************************************************)
(* Inputs of one invocation                                                *)
(***************************************************************************)
Names == {<<"p">>, <<"p", "q">>}

Datatypes == {"string", "number", "date", "cursor"}

Directions == {"in", "out", "inout"}

Values == {<<" ">>, <<"1", ",", " ", "x">>}

MaxSizes == {0, 100}

\* the reducer reads item.value only in the branches that coerce it
ReadsValue(d) ==
    /\ d.datatype # "cursor"
    /\ IF d.parseInStatement THEN d.direction = "in" ELSE d.direction # "out"

\* the reducer reads item.maxSize only where it may be attached to the bind
ReadsMaxSize(d) ==
    ~d.parseInStatement /\ d.direction # "in" /\ d.datatype = "string"

\* the items of the "params" collection; a field the reducer does not read
\* is left unset (value "" by value ?? "", maxSize 0)
Descriptors ==
    {d \in [name : Names, value : Values \cup {<<>>}, datatype : Datatypes,
            direction : Directions, maxSize : MaxSizes,
            parseInStatement : BOOLEAN] :
        /\ (ReadsValue(d) <=> d.value # <<>>)
        /\ (~ReadsMaxSize(d) => d.maxSize = 0)}

ParamLists == UNION {[1..n -> Descriptors] : n \in 0..MaxParams}

Templates == {<<":", "p", ",", ":", "p", "q", " ", ":", "p">>}

(***************************************************************************)
(* The bind reducer                                                        *)
(***************************************************************************)
EmptyMap == [x \in {} |-> 0]

Put(f, k, v) == [x \in DOMAIN f \cup {k} |-> IF x = k THEN v ELSE f[x]]

NoError == [text |-> "", name |-> <<>>, dir |-> ""]

toUpperCase(direction) ==
    CASE direction = "in" -> "IN" [] direction = "out" -> "OUT"
      [] OTHER -> "INOUT"

\* String(value ?? "").split(",").map(trim).filter(length > 0)
valListOf(value) == SelectSeq([i \in 1..Len(split(value, ",")) |->
                                  trim(split(value, ",")[i])],
                              LAMBDA v : Len(v) > 0)

\* crypto.randomUUID().replaceAll("-", "_") of the n-th call
UuidSym(n) == "u" \o ToString(n)

Bind(dir, type, val, hasMaxSize, maxSize) ==
    [dir |-> dir, type |-> type, val |-> val,
     hasMaxSize |-> hasMaxSize, maxSize |-> maxSize]

\* the forEach over valList: the names, in token order
NewParamNames(name, valList, uuids) ==
    [i \in 1..Len(valList) |-> name \o <<uuids[i]>>]

\* every generated bind carrying the value of the last token
RECURSIVE PutTokensLast(_, _, _, _, _)
PutTokensLast(res, names, valList, item, i) ==
    IF i > Len(valList) THEN res
    ELSE PutTokensLast(Put(res, names[i],
                           Bind("BIND_IN", mapDatatype(item.datatype),
                                coerceVal(valList[Len(valList)], item.datatype),
                                FALSE, 0)),
                       names, valList, item, i + 1)

RECURSIVE PutTokens(_, _, _, _, _)
PutTokens(res, names, valList, item, i) ==
    IF i > Len(valList) THEN res
    ELSE PutTokens(Put(res, names[i],
                       Bind("BIND_IN", mapDatatype(item.datatype),
                            coerceVal(valList[i], item.datatype), FALSE, 0)),
                   names, valList, item, i + 1)

RECURSIVE JoinPlaceholders(_, _)
JoinPlaceholders(names, i) ==
    IF i > Len(names) THEN <<>>
    ELSE <<":">> \o names[i] \o <<",">> \o JoinPlaceholders(names, i + 1)

\* "(" + ":name," ... then slice(0, -1) + ")"
GeneratedSql(names) ==
    LET s == <<"(">> \o JoinPlaceholders(names, 1)
    IN  SubSeq(s, 1, Len(s) - 1) \o <<")">>

\* the check of the empty list left out
NoValuesNever(valList) == FALSE

\* if (valList.length === 0)
NoValues(valList) == Len(valList) = 0

Step(err, res, q, names, sql) ==
    [error |-> err, result |-> res, query |-> q, names |-> names, sql |-> sql]

Fail(text, item, res, q) ==
    Step([text |-> text, name |-> item.name,
          dir |-> IF text = "uses Parse for IN statement but direction is"
                  THEN toUpperCase(item.direction) ELSE ""],
         res, q, <<>>, <<>>)

\* one call of the reducer: (result, item) with the closure's query;
\* uuids are the values randomUUID returns, in call order
ReduceItem(res, q, item, uuids) ==
    LET dbType == mapDatatype(item.datatype)
        valList == valListOf(item.value)
        names == NewParamNames(item.name, valList, uuids)
        sql == GeneratedSql(names)
        finalMax == ensureOutMaxSize(item.datatype, item.maxSize)
    IN  IF item.parseInStatement
        THEN IF item.direction # "in"
             THEN Fail("uses Parse for IN statement but direction is", item, res, q)
             ELSE IF item.datatype = "cursor"
             THEN Fail("cannot be CURSOR with Parse for IN statement", item, res, q)
             ELSE IF NoValues(valList)
             THEN Fail("has no values for IN list.", item, res, q)
             ELSE Step(NoError, PutTokens(res, names, valList, item, 1),
                       replaceAll(q, <<":">> \o item.name, sql), names, sql)
        ELSE IF item.direction = "in"
        THEN IF item.datatype = "cursor"
             THEN Fail("cannot be CURSOR with IN direction.", item, res, q)
             ELSE Step(NoError,
                       Put(res, item.name,
                           Bind("BIND_IN", dbType,
                                coerceVal(item.value, item.datatype), FALSE, 0)),
                       q, <<>>, <<>>)
        ELSE IF item.direction = "out"
        THEN Step(NoError,
                  Put(res, item.name,
                      Bind("BIND_OUT", dbType, NoVal, dbType = "STRING",
                           IF dbType = "STRING" THEN finalMax ELSE 0)),
                  q, <<>>, <<>>)
        ELSE IF item.datatype = "cursor"
        THEN Fail("cannot be CURSOR with IN OUT direction.", item, res, q)
        ELSE Step(NoError,
                  Put(res, item.name,
                      Bind("BIND_INOUT", dbType,
                           coerceVal(item.value, item.datatype),
                           dbType = "STRING",
                           IF dbType = "STRING" THEN finalMax ELSE 0)),
                  q, <<>>, <<>>)

\* number of randomUUID calls the reducer makes for item
UuidCalls(item) ==
    IF item.parseInStatement /\ item.direction = "in" /\ item.datatype # "cursor"
    THEN Len(valListOf(item.value))
    ELSE 0

(***************************************************************************)
(* execute(): try / catch / finally                                        *)
(***************************************************************************)
NotThrown == [kind |-> "none", message |-> NoError]

\* String(error) of an Error whose message is empty
StringOfError == [text |-> "Error", name |-> <<>>, dir |-> ""]

\* catch (error): throw new NodeOperationError(node, error?.message || String(error))
Catch(message) ==
    [kind |-> "NodeOperationError",
     message |-> IF message.text # "" THEN message ELSE StringOfError]

\* a close() placed at the end of the try block instead of in finally
ThrowSkipsFinally == "done"

\* where control goes when the try block throws: catch wraps the error,
\* then the finally block runs
ThrowTarget == "finally"

NotSettled == [kind |-> "pending", message |-> NoError]

\* a finally block that lets the rejection of close() replace the completion
FinallyCompletionMasks(pending, closeRejected) ==
    IF closeRejected
    THEN [kind |-> "Error",
          message |-> [text |-> "close failed", name |-> <<>>, dir |-> ""]]
    ELSE pending

\* the completion of try/catch after the finally block ran: the block
\* swallows a rejection of connection.close(), so the completion stands
FinallyCompletion(pending, closeRejected) == pending

\* the messages connection.execute rejects with
ExecuteErrors ==
    {[text |-> "ORA-00942", name |-> <<>>, dir |-> ""], NoError}

\* the rows a cursor handle of this run delivers
HandleRows == {<<>>, <<"row">>}

OutNames(binds) ==
    {n \in DOMAIN binds : binds[n].dir \in {"BIND_OUT", "BIND_INOUT"}}

\* the outBinds of the executor's result: a cursor handle for every CURSOR
\* bind, a scalar for every other OUT or IN OUT bind, undefined without one
ExecOutBinds(binds) ==
    [present |-> OutNames(binds) # {},
     values |-> [n \in OutNames(binds) |->
                    IF binds[n].type = "CURSOR"
                    THEN [kind |-> "ResultSet", id |-> n, rows |-> <<>>]
                    ELSE [kind |-> "scalar", id |-> <<>>, rows |-> <<>>]]]

CursorNames(binds) == {n \in OutNames(binds) : binds[n].type = "CURSOR"}

\* const item = { metaData, rows, rowsAffected, lastRowid, outBinds }
Item(execResult) ==
    [metaData |-> execResult.metaData, rows |-> execResult.rows,
     rowsAffected |-> execResult.rowsAffected,
     lastRowid |-> execResult.lastRowid, outBinds |-> execResult.outBinds]

\* this.helpers.returnJsonArray([item])
returnJsonArray(items) == [i \in 1..Len(items) |-> [json |-> items[i]]]

ExecResult(binds) ==
    [metaData |-> "undefined", rows |-> "undefined", rowsAffected |-> 0,
     lastRowid |-> "undefined", outBinds |-> ExecOutBinds(binds)]

(***************************************************************************)
(* normalizeOutBinds                                                       *)
(*                                                                         *)
(* A value is a node: "absent" (undefined), "scalar", "cursor" (a          *)
(* ResultSet), "array", "map" (a plain object, its items carrying their    *)
(* keys) or "rows" (the array getRows delivered).  A cursor handle is      *)
(* named by its path in the argument, so handles are distinct objects.     *)
(***************************************************************************)
Node(t, items) == [t |-> t, key |-> "", rows |-> <<>>, items |-> items]

Absent == Node("absent", <<>>)

Scalar == Node("scalar", <<>>)

Cursor == Node("cursor", <<>>)

KeySeqs == {<<>>, <<"a">>, <<"b">>, <<"a", "b">>}

WithKey(node, k) == [node EXCEPT !.key = k]

ArraysOver(S, maxLen) ==
    {Node("array", items) : items \in UNION {[1..n -> S] : n \in 0..maxLen}}

MapsOver(S) ==
    UNION {{Node("map", [i \in 1..Len(ks) |-> WithKey(f[i], ks[i])]) :
                f \in [1..Len(ks) -> S]} : ks \in KeySeqs}

Leaves == {Scalar, Cursor}

Nested == Leaves \cup ArraysOver(Leaves, MaxLen) \cup MapsOver(Leaves)

\* the output-bind sections: undefined, a scalar, an array or an object
OutBindSections ==
    {Absent, Scalar} \cup ArraysOver(Nested, MaxTop) \cup MapsOver(Nested)

\* isResultSet(v)
isResultSet(v) == v.t = "cursor"

\* the handles normalizeOutBinds passes to readResultSet: the elements of a
\* top-level array, the values of a top-level object and the elements of an
\* array that is such a value
ReadHandles(ob) ==
    IF ob.t = "array"
    THEN {<<i>> : i \in {k \in 1..Len(ob.items) : isResultSet(ob.items[k])}}
    ELSE IF ob.t = "map"
    THEN {<<i>> : i \in {k \in 1..Len(ob.items) : isResultSet(ob.items[k])}}
         \cup UNION {{<<i, j>> : j \in {k \in 1..Len(ob.items[i].items) :
                                         isResultSet(ob.items[i].items[k])}} :
                      i \in {k \in 1..Len(ob.items) : ob.items[k].t = "array"}}
    ELSE {}

\* every cursor handle of an output-bind section, by path
Handles(ob) ==
    {<<i>> : i \in {k \in 1..Len(ob.items) : ob.items[k].t = "cursor"}}
    \cup UNION {{<<i, j>> : j \in {k \in 1..Len(ob.items[i].items) :
                                    ob.items[i].items[k].t = "cursor"}} :
                 i \in 1..Len(ob.items)}

Rows(v, rows) == [t |-> "rows", key |-> v.key, rows |-> rows, items |-> <<>>]

\* only the direct values replaced, arrays inside an object passed through
NormalizedTopOnly(ob, h) ==
    IF ob.t \in {"array", "map"}
    THEN [ob EXCEPT !.items =
            [i \in 1..Len(ob.items) |->
                IF isResultSet(ob.items[i])
                THEN Rows(ob.items[i], h[<<i>>].rows)
                ELSE ob.items[i]]]
    ELSE ob

\* the value normalizeOutBinds resolves with, h being the state of the
\* handles: rows for every handle it read, the value itself otherwise
Normalized(ob, h) ==
    IF ob.t = "array"
    THEN [ob EXCEPT !.items =
            [i \in 1..Len(ob.items) |->
                IF isResultSet(ob.items[i])
                THEN Rows(ob.items[i], h[<<i>>].rows)
                ELSE ob.items[i]]]
    ELSE IF ob.t = "map"
    THEN [ob EXCEPT !.items =
            [i \in 1..Len(ob.items) |->
                IF isResultSet(ob.items[i])
                THEN Rows(ob.items[i], h[<<i>>].rows)
                ELSE IF ob.items[i].t = "array"
                THEN [ob.items[i] EXCEPT !.items =
                        [j \in 1..Len(ob.items[i].items) |->
                            IF isResultSet(ob.items[i].items[j])
                            THEN Rows(ob.items[i].items[j], h[<<i, j>>].rows)
                            ELSE ob.items[i].items[j]]]
                ELSE ob.items[i]]]
    ELSE ob

Rejection == Node("error", <<>>)

\* the rows the handle at path h delivers: one row that names the handle
RowsOf(h) == <<h>>

IdleHandle == [state |-> "idle", getRowsCalls |-> 0, closeCalls |-> 0,
               rows |-> <<>>]

InitNormIdle ==
    /\ outBinds = Absent
    /\ npc = "idle"
    /\ rs = EmptyMap
    /\ normResult = Absent

InitExecIdle ==
    /\ queryTemplate = <<>>
    /\ params = <<>>
    /\ pc = "idle"
    /\ idx = 1
    /\ query = <<>>
    /\ result = EmptyMap
    /\ newParamNames = <<>>
    /\ generatedSqlString = <<>>
    /\ uuidCount = 0
    /\ executeCalls = <<>>
    /\ executeOutcome = NotSettled
    /\ resultSets = EmptyMap
    /\ returnItems = <<>>
    /\ thrown = NotThrown
    /\ closeCalls = 0
    /\ consoleErrors = 0

InitNorm ==
    /\ outBinds \in OutBindSections
    /\ npc = "called"
    /\ rs = [h \in Handles(outBinds) |-> IdleHandle]
    /\ normResult = Absent
    /\ InitExecIdle

\* the synchronous part of the call: every map callback runs up to its
\* first await, so rs.getRows(10000) is called on every handle that is read
NormStart ==
    /\ npc = "called"
    /\ rs' = [h \in DOMAIN rs |->
                IF h \in ReadHandles(outBinds)
                THEN [rs[h] EXCEPT !.state = "getRows", !.getRowsCalls = @ + 1]
                ELSE rs[h]]
    /\ IF ReadHandles(outBinds) = {}
       THEN npc' = "resolved" /\ normResult' = Normalized(outBinds, rs)
       ELSE npc' = "pending" /\ UNCHANGED normResult
    /\ UNCHANGED outBinds
    /\ UNCHANGED execVars

\* Promise.all rejects with the first rejection, whatever its siblings do
SettleRejected ==
    IF npc = "pending"
    THEN npc' = "rejected" /\ normResult' = Rejection
    ELSE UNCHANGED <<npc, normResult>>

\* await rs.getRows(10000) resolves; readResultSet goes on to rs.close()
GetRowsResolve ==
    /\ \E h \in DOMAIN rs :
          /\ rs[h].state = "getRows"
          /\ rs' = [rs EXCEPT ![h].state = "close", ![h].rows = RowsOf(h),
                              ![h].closeCalls = @ + 1]
    /\ UNCHANGED <<outBinds, npc, normResult>>
    /\ UNCHANGED execVars

\* await rs.getRows(10000) rejects; readResultSet ends without rs.close()
GetRowsReject ==
    /\ \E h \in DOMAIN rs :
          /\ rs[h].state = "getRows"
          /\ rs' = [rs EXCEPT ![h].state = "failed"]
    /\ SettleRejected
    /\ UNCHANGED outBinds
    /\ UNCHANGED execVars

\* await rs.close() resolves; readResultSet returns the rows
RsCloseResolve ==
    /\ \E h \in DOMAIN rs :
          /\ rs[h].state = "close"
          /\ rs' = [rs EXCEPT ![h].state = "done"]
    /\ IF npc = "pending"
          /\ \A h \in ReadHandles(outBinds) : rs'[h].state = "done"
       THEN npc' = "resolved" /\ normResult' = Normalized(outBinds, rs')
       ELSE UNCHANGED <<npc, normResult>>
    /\ UNCHANGED outBinds
    /\ UNCHANGED execVars

\* await rs.close() rejects
RsCloseReject ==
    /\ \E h \in DOMAIN rs :
          /\ rs[h].state = "close"
          /\ rs' = [rs EXCEPT ![h].state = "failed"]
    /\ SettleRejected
    /\ UNCHANGED outBinds
    /\ UNCHANGED execVars

NextNorm ==
    \/ NormStart
    \/ GetRowsResolve
    \/ GetRowsReject
    \/ RsCloseResolve
    \/ RsCloseReject

SpecNorm == InitNorm /\ [][NextNorm]_vars

Init ==
    /\ queryTemplate \in Templates
    /\ params \in ParamLists
    /\ pc = "reduce"
    /\ idx = 1
    /\ query = queryTemplate
    /\ result = EmptyMap
    /\ newParamNames = [i \in 1..Len(params) |-> <<>>]
    /\ generatedSqlString = [i \in 1..Len(params) |-> <<>>]
    /\ uuidCount = 0
    /\ executeCalls = <<>>
    /\ executeOutcome = NotSettled
    /\ resultSets = EmptyMap
    /\ returnItems = <<>>
    /\ thrown = NotThrown
    /\ closeCalls = 0
    /\ consoleErrors = 0
    /\ InitNormIdle

\* one iteration of parameterIDataObjectList.reduce
ReduceStep ==
    /\ pc = "reduce"
    /\ idx <= Len(params)
    /\ LET item == params[idx]
           uuids == [j \in 1..UuidCalls(item) |-> UuidSym(uuidCount + j)]
           r == ReduceItem(result, query, item, uuids)
       IN  /\ uuidCount' = uuidCount + UuidCalls(item)
           /\ IF r.error # NoError
              THEN /\ thrown' = Catch(r.error)
                   /\ pc' = ThrowTarget
                   /\ UNCHANGED <<idx, query, result, newParamNames,
                                  generatedSqlString>>
              ELSE /\ idx' = idx + 1
                   /\ query' = r.query
                   /\ result' = r.result
                   /\ newParamNames' = [newParamNames EXCEPT ![idx] = r.names]
                   /\ generatedSqlString' =
                          [generatedSqlString EXCEPT ![idx] = r.sql]
                   /\ UNCHANGED <<thrown, pc>>
    /\ UNCHANGED <<queryTemplate, params, executeCalls, executeOutcome,
                   resultSets, returnItems, closeCalls, consoleErrors>>
    /\ UNCHANGED normVars

\* connection.execute(query, bindParameters, options) is called
CallExecute ==
    /\ pc = "reduce"
    /\ idx > Len(params)
    /\ executeCalls' = Append(executeCalls, [sql |-> query, binds |-> result])
    /\ pc' = "awaitExecute"
    /\ UNCHANGED <<queryTemplate, params, idx, query, result, newParamNames,
                   generatedSqlString, uuidCount, executeOutcome, resultSets,
                   returnItems, thrown, closeCalls, consoleErrors>>
    /\ UNCHANGED normVars

\* the executor resolves; the item is assembled and wrapped
ExecuteResolve ==
    /\ pc = "awaitExecute"
    /\ \E rows \in HandleRows :
          resultSets' = [n \in CursorNames(result) |->
                            [rows |-> rows, getRowsCalls |-> 0, closeCalls |-> 0]]
    /\ executeOutcome' = [kind |-> "resolved", message |-> NoError]
    /\ returnItems' = returnJsonArray(<<Item(ExecResult(result))>>)
    /\ pc' = "finally"
    /\ UNCHANGED <<queryTemplate, params, idx, query, result, newParamNames,
                   generatedSqlString, uuidCount, executeCalls, thrown,
                   closeCalls, consoleErrors>>
    /\ UNCHANGED normVars

\* the executor rejects; the catch clause wraps the error
ExecuteReject ==
    /\ pc = "awaitExecute"
    /\ \E e \in ExecuteErrors :
          /\ executeOutcome' = [kind |-> "rejected", message |-> e]
          /\ thrown' = Catch(e)
    /\ pc' = ThrowTarget
    /\ UNCHANGED <<queryTemplate, params, idx, query, result, newParamNames,
                   generatedSqlString, uuidCount, executeCalls, resultSets,
                   returnItems, closeCalls, consoleErrors>>
    /\ UNCHANGED normVars

\* finally: connection.close() resolves
CloseResolve ==
    /\ pc = "finally"
    /\ closeCalls' = closeCalls + 1
    /\ thrown' = FinallyCompletion(thrown, FALSE)
    /\ pc' = "done"
    /\ UNCHANGED <<queryTemplate, params, idx, query, result, newParamNames,
                   generatedSqlString, uuidCount, executeCalls, executeOutcome,
                   resultSets, returnItems, consoleErrors>>
    /\ UNCHANGED normVars

\* finally: connection.close() rejects; the error is logged
CloseReject ==
    /\ pc = "finally"
    /\ closeCalls' = closeCalls + 1
    /\ consoleErrors' = consoleErrors + 1
    /\ thrown' = FinallyCompletion(thrown, TRUE)
    /\ pc' = "done"
    /\ UNCHANGED <<queryTemplate, params, idx, query, result, newParamNames,
                   generatedSqlString, uuidCount, executeCalls, executeOutcome,
                   resultSets, returnItems>>
    /\ UNCHANGED normVars

Next ==
    \/ ReduceStep
    \/ CallExecute
    \/ ExecuteResolve
    \/ ExecuteReject
    \/ CloseResolve
    \/ CloseReject

Spec == Init /\ [][Next]_vars

\* what the caller of execute() observes once it has ended
CallerOutcome ==
    IF thrown.kind # "none"
    THEN [kind |-> "throw", message |-> thrown.message, value |-> <<>>]
    ELSE [kind |-> "return", message |-> NoError, value |-> <<returnItems>>]

(***************************************************************************)
(* Vocabulary of the properties                                            *)
(***************************************************************************)
Range(f) == {f[i] : i \in DOMAIN f}

Contains(s, pat) == \E k \in 1..Len(s) : OccursAt(s, pat, k)

Occurrences(s, pat) == Cardinality({k \in 1..Len(s) : OccursAt(s, pat, k)})

Placeholder(name) == <<":">> \o name

\* a character that continues a placeholder name
IsNameChar(c) == c \notin {":", ",", "(", ")", " "}

\* the positions of value where a non-empty token starts: the first
\* character of its comma-separated piece that is no white space
TokenStarts(value) ==
    {k \in 1..Len(value) :
        /\ value[k] \notin WhiteSpace \cup {","}
        /\ \A j \in 1..(k - 1) :
              (\A m \in j..(k - 1) : value[m] # ",") => value[j] \in WhiteSpace}

NumTokens(value) == Cardinality(TokenStarts(value))

\* a descriptor the reducer compiles into an IN list
ExpandsValid(d) ==
    /\ d.parseInStatement
    /\ d.direction = "in"
    /\ d.datatype # "cursor"
    /\ NumTokens(d.value) > 0

\* the four invalid combinations of direction, datatype and expansion
InvalidDescriptor(d) ==
    \/ d.datatype = "cursor" /\ d.direction \in {"in", "inout"}
    \/ d.datatype = "cursor" /\ d.parseInStatement
    \/ d.parseInStatement /\ d.direction \in {"out", "inout"}
    \/ d.parseInStatement /\ \A k \in 1..Len(d.value) :
                                 d.value[k] \in WhiteSpace \cup {","}

\* the error of the first item the reducer rejects, NoError without one
ItemError(d) ==
    ReduceItem(EmptyMap, <<>>, d, [j \in 1..UuidCalls(d) |-> "u"]).error

FirstRejected(list) ==
    IF \E i \in 1..Len(list) : ItemError(list[i]) # NoError
    THEN ItemError(list[CHOOSE i \in 1..Len(list) :
                            /\ ItemError(list[i]) # NoError
                            /\ \A j \in 1..(i - 1) : ItemError(list[j]) = NoError])
    ELSE NoError

Ended == pc = "done"

\* the outcome try/catch had determined, from the inputs and from how the
\* executor settled, before the finally block ran
PrimaryOutcome ==
    IF FirstRejected(params) # NoError
    THEN [kind |-> "throw", message |-> FirstRejected(params), value |-> <<>>]
    ELSE IF executeOutcome.kind = "rejected"
    THEN [kind |-> "throw",
          message |-> IF executeOutcome.message = NoError
                      THEN StringOfError ELSE executeOutcome.message,
          value |-> <<>>]
    ELSE [kind |-> "return", message |-> NoError,
          value |-> <<<<[json |-> Item(ExecResult(executeCalls[1].binds))]>>>>]

(***************************************************************************)
(* C1: once the connection is acquired, connection.close() is called       *)
(* exactly once before execute() ends, on every exit path (return,         *)
(* validation error, rejection of connection.execute); it is never called  *)
(* twice and execute() never ends without it.                              *)
(***************************************************************************)
C1_CloseExactlyOnce ==
    /\ closeCalls <= 1
    /\ Ended => closeCalls = 1
    /\ pc \in {"reduce", "awaitExecute", "finally"} => closeCalls = 0

\* execute() ended by the rejection of connection.execute, connection closed
C1_Witness ==
    /\ Ended
    /\ executeOutcome.kind = "rejected"
    /\ thrown.kind = "NodeOperationError"
    /\ closeCalls = 1

(***************************************************************************)
(* C2: for a descriptor {cursor, out} and a successful execution, the      *)
(* returned record has outBinds[name] equal to the array of rows the       *)
(* cursor handle delivers, and the handle's close() was called exactly     *)
(* once before the record is returned.                                     *)
(***************************************************************************)
C2_CursorMaterialized ==
    (Ended /\ thrown.kind = "none") =>
        \A n \in DOMAIN resultSets :
            /\ returnItems[1].json.outBinds.values[n].kind = "rows"
            /\ returnItems[1].json.outBinds.values[n].rows = resultSets[n].rows
            /\ resultSets[n].closeCalls = 1

(***************************************************************************)
(* C3: a rejection of connection.close() in the finally block never        *)
(* changes the outcome of execute(): the caller gets the record, or the    *)
(* error with its original message, that try/catch had determined.         *)
(***************************************************************************)
C3_CloseFailureKeepsOutcome ==
    Ended => CallerOutcome = PrimaryOutcome

\* close() rejected after a successful execution and the record is returned
C3_Witness ==
    /\ Ended
    /\ consoleErrors = 1
    /\ executeOutcome.kind = "resolved"
    /\ CallerOutcome.kind = "return"
    /\ Len(CallerOutcome.value[1]) = 1

(***************************************************************************)
(* C4: validation is fail-fast: a descriptor list with an invalid          *)
(* descriptor, at any position, makes execute() end with an error and      *)
(* connection.execute is never called.                                     *)
(***************************************************************************)
C4_FailFast ==
    (\E i \in 1..Len(params) : InvalidDescriptor(params[i])) =>
        /\ executeCalls = <<>>
        /\ pc # "awaitExecute"
        /\ Ended => thrown.kind = "NodeOperationError"

\* a valid descriptor followed by an expansion without a token: rejected
C4_Witness ==
    /\ Ended
    /\ Len(params) = 2
    /\ ~InvalidDescriptor(params[1])
    /\ params[2].parseInStatement
    /\ params[2].direction = "in"
    /\ params[2].datatype = "string"
    /\ InvalidDescriptor(params[2])
    /\ thrown.kind = "NodeOperationError"
    /\ executeCalls = <<>>

Unparsable(d) ==
    /\ d.datatype \in {"number", "date"}
    /\ IF d.parseInStatement
       THEN d.direction = "in" /\
            \E j \in 1..Len(valListOf(d.value)) :
                coerceVal(valListOf(d.value)[j], d.datatype).kind
                    \in {"NaN", "InvalidDate"}
       ELSE d.direction # "out" /\
            coerceVal(d.value, d.datatype).kind \in {"NaN", "InvalidDate"}

(***************************************************************************)
(* C5: a number or date descriptor whose value, or one of whose tokens,    *)
(* does not parse makes execute() fail before execution: no bind carrying  *)
(* NaN or an invalid date is passed to connection.execute.                 *)
(***************************************************************************)
C5_UnparsableRejected ==
    /\ (\E i \in 1..Len(params) : Unparsable(params[i])) =>
           /\ executeCalls = <<>>
           /\ Ended => thrown.kind = "NodeOperationError"
    /\ \A c \in 1..Len(executeCalls) :
           \A n \in DOMAIN executeCalls[c].binds :
               executeCalls[c].binds[n].val.kind \notin {"NaN", "InvalidDate"}

RECURSIVE PlaceholderList(_)
PlaceholderList(names) ==
    IF Len(names) = 1 THEN Placeholder(names[1])
    ELSE Placeholder(names[1]) \o <<",">> \o PlaceholderList(Tail(names))

(***************************************************************************)
(* C6: for every compiled list-expanding IN descriptor, the generated IN   *)
(* binds in the bind mapping are as many as the non-empty tokens of the    *)
(* value, the substituted list holds exactly their placeholders in token   *)
(* order, and the i-th bind carries the i-th token coerced to the          *)
(* descriptor's datatype.                                                  *)
(***************************************************************************)
C6_ExpansionMatchesTokens ==
    \A i \in 1..(idx - 1) :
        params[i].parseInStatement =>
            LET d == params[i]
                names == newParamNames[i]
            IN  /\ Len(names) = NumTokens(d.value)
                /\ Cardinality(Range(names) \cap DOMAIN result)
                       = NumTokens(d.value)
                /\ generatedSqlString[i]
                       = <<"(">> \o PlaceholderList(names) \o <<")">>
                /\ \A j \in 1..Len(names) :
                       /\ names[j] \in DOMAIN result
                       /\ result[names[j]].dir = "BIND_IN"
                       /\ result[names[j]].type = mapDatatype(d.datatype)
                       /\ result[names[j]].val =
                              coerceVal(valListOf(d.value)[j], d.datatype)

\* a number list "1, x" compiled into two binds, the first carrying 1
C6_Witness ==
    /\ executeCalls # <<>>
    /\ \E i \in 1..Len(params) :
          /\ params[i].parseInStatement
          /\ params[i].datatype = "number"
          /\ NumTokens(params[i].value) = 2
          /\ Len(newParamNames[i]) = 2
          /\ executeCalls[1].binds[newParamNames[i][1]].val.kind = "number"
          /\ executeCalls[1].binds[newParamNames[i][1]].val.num = 1
          /\ executeCalls[1].binds[newParamNames[i][2]].val.kind = "NaN"

NoBarePlaceholder(sql, name) ==
    \A k \in 1..Len(sql) :
        OccursAt(sql, Placeholder(name), k) =>
            /\ k + Len(name) + 1 <= Len(sql)
            /\ IsNameChar(sql[k + Len(name) + 1])

C7_Passed ==
    \A c \in 1..Len(executeCalls) :
        \A i \in 1..Len(params) :
            (ExpandsValid(params[i])
                /\ Contains(queryTemplate, Placeholder(params[i].name)))
            => /\ NoBarePlaceholder(executeCalls[c].sql, params[i].name)
               /\ Cardinality(Range(newParamNames[i])) = NumTokens(params[i].value)

C7_Compiled ==
    (pc = "reduce" /\ idx' = idx + 1 /\ params[idx].parseInStatement) =>
        LET pat == Placeholder(params[idx].name)
            list == generatedSqlString'[idx]
            n == Occurrences(query, pat)
        IN  /\ Occurrences(query', list) = n
            /\ Len(query') = Len(query) + n * (Len(list) - Len(pat))
            /\ NoBarePlaceholder(query', params[idx].name)

RECURSIVE CompileFrom(_, _, _, _, _)
CompileFrom(list, i, res, q, uuids) ==
    IF i > Len(list) THEN [error |-> NoError, result |-> res, query |-> q]
    ELSE LET n == UuidCalls(list[i])
             r == ReduceItem(res, q, list[i], SubSeq(uuids, 1, n))
         IN  IF r.error # NoError
             THEN [error |-> r.error, result |-> res, query |-> q]
             ELSE CompileFrom(list, i + 1, r.result, r.query,
                              SubSeq(uuids, n + 1, Len(uuids)))

RECURSIVE TotalUuidCalls(_)
TotalUuidCalls(list) ==
    IF list = <<>> THEN 0
    ELSE UuidCalls(Head(list)) + TotalUuidCalls(Tail(list))

DistinctNames(list) ==
    \A i, j \in 1..Len(list) : i # j => list[i].name # list[j].name

(***************************************************************************)
(* C8: the order of the descriptors does not matter: compiling any         *)
(* permutation of the list against the same template fails when the list   *)
(* fails and, when it succeeds, gives the same SQL and bind mapping up to  *)
(* a renaming of the generated suffixes.  Stated for the lists whose       *)
(* descriptors have pairwise distinct names.                               *)
(***************************************************************************)
C8_OrderIrrelevant ==
    (Ended /\ DistinctNames(params)) =>
        \A f \in Permutations(1..Len(params)) :
            LET list == [i \in 1..Len(params) |-> params[f[i]]]
                t == TotalUuidCalls(list)
            IN  IF executeCalls = <<>>
                THEN CompileFrom(list, 1, EmptyMap, queryTemplate,
                                 [j \in 1..t |-> UuidSym(j)]).error # NoError
                ELSE \E g \in Permutations(1..t) :
                        LET c == CompileFrom(list, 1, EmptyMap, queryTemplate,
                                             [j \in 1..t |-> UuidSym(g[j])])
                        IN  /\ c.error = NoError
                            /\ c.query = executeCalls[1].sql
                            /\ c.result = executeCalls[1].binds

RECURSIVE NormalizedAtEveryDepth(_, _, _)
NormalizedAtEveryDepth(in, out, path) ==
    IF in.t = "cursor"
    THEN out = Rows(in, RowsOf(path))
    ELSE IF in.t \in {"array", "map"}
    THEN /\ out.t = in.t
         /\ out.key = in.key
         /\ Len(out.items) = Len(in.items)
         /\ \A i \in 1..Len(in.items) :
               NormalizedAtEveryDepth(in.items[i], out.items[i],
                                      Append(path, i))
    ELSE out = in

C10_NoHandleOutlives ==
    /\ npc \in {"resolved", "rejected"} =>
          \A h \in ReadHandles(outBinds) :
              /\ rs[h].closeCalls = 1
              /\ rs[h].state \notin {"getRows", "close"}
    /\ (\E h \in DOMAIN rs : rs[h].state = "failed") =>
          npc = "rejected" /\ normResult = Rejection

====
